---- MODULE Spec2Model ----
(***************************************************************************)
(* Model of stack_string::StackString<N> (include/stack_string.hpp) and of *)
(* stack_string::FixedBufAllocator<T> (include/fixed_buf_allocator.hpp).   *)
(*                                                                         *)
(* A StackString object is its two members: m_data, a function from        *)
(* 0..N to bytes (char m_data[N + 1]), and m_size.  Bytes are their ASCII  *)
(* codes.  Memory the code never wrote holds an arbitrary byte.            *)
(***************************************************************************)
EXTENDS Integers, Sequences, FiniteSets, TLC

\* ------------------------------------------------------------------ bounds
MaxN == 3              \* the capacities of one object explored: 1..MaxN
MaxPairN == 2          \* the capacities of two objects explored: 1..MaxPairN
MaxAllocs == 2         \* allocator objects constructed in a run
MaxGrants == 2         \* successful allocations in a run
WordBits == 6          \* bits of std::size_t in the model

\* ------------------------------------------------------------- the bytes
NUL == 0               \* '\0'
Minus == 45            \* '-'
Zero == 48             \* '0'
One == 49              \* '1'

\* The bytes the inputs of Spec are made of; std::to_chars may leave any of
\* them in the range it was given when it fails.
AnyByte == {NUL, Minus, One}

\* Values a char that was never initialised may hold: zero or not.
UninitBytes == {NUL, One}

Min(a, b) == IF a < b THEN a ELSE b

\* ------------------------------------------------------------- variables
VARIABLES
    N,        \* the template parameter N of the objects in this run
    strs,     \* live StackString<N> objects: id -> [m_data, m_size]
    last,     \* the last operation.  On a container [op, obj, arg, hi]: hi
              \* is the highest index of m_data the operation wrote (-1:
              \* none).  On an allocator [op, obj, arg, res]: res is the
              \* offset in the region of the pointer returned (Null: nullptr)
    allocs,   \* the FixedBufAllocator objects constructed so far, in order:
              \* [m_buffer, m_capacity, m_used, elem], elem being sizeof(T)
    granted   \* the ranges allocate returned so far, in order: [buf, lo,
              \* len, cap], the len = n * sizeof(T) bytes from offset lo of
              \* region buf that the caller asked for, cap the capacity of
              \* the allocator that returned them

vars == <<N, strs, last, allocs, granted>>

\* --------------------------------------------------- inputs of the calls
NullPtr == <<>>        \* a const char* that is nullptr: no buffer at all

\* A byte sequence of len copies of '1' ...
Ones(len) == [i \in 1..len |-> One]
\* ... and the terminated buffer a string literal of that text is.
Lit(text) == text \o <<NUL>>

\* const char* arguments: nullptr, "", "1", "-1", "1\0-" and a literal
\* longer than every capacity explored.
CStrArgs == {NullPtr, Lit(<<>>), Lit(<<One>>), Lit(<<Minus, One>>),
             Lit(<<One, NUL, Minus>>), Lit(<<Minus>> \o Ones(MaxN + 1))}

\* std::string_view arguments; a view may contain '\0'.
SvArgs == {<<>>, <<One>>, <<Minus, One>>, <<One, NUL, Minus>>,
           <<Minus>> \o Ones(MaxN + 1)}

CharArgs == {NUL, Minus}

IntArgs == {1, -1, 11, -11, 111, -111, 11111}

\* The arguments of the two-object specification are made of '1' only.
PairCStrArgs == {Lit(<<>>), Lit(<<One>>), Lit(Ones(MaxPairN + 2))}
PairSvArgs == {<<>>, <<One>>, <<One, NUL>>, Ones(MaxPairN + 2)}
PairCharArgs == {NUL, One}

\* The test's input "1234567890" (tests/stack_string_tests.cpp:16) ...
TestInput == <<49, 50, 51, 52, 53, 54, 55, 56, 57, 48>>
\* ... and the capacity of the container it is appended to.
TestCapacity == 8
\* The inputs of the single-append specification: every prefix of it.
FreshTexts == {SubSeq(TestInput, 1, k) : k \in 0..Len(TestInput)}
FreshCapacities == (1..MaxN) \cup {TestCapacity}

ResizeCounts == 0..(MaxN + 1)
PairResizeCounts == 0..(MaxPairN + 1)
FillArgs == {NUL, One}

\* ------------------------------------------------------ pure operations
\* std::strlen: the index of the first '\0' of the buffer.
RECURSIVE StrLenFrom(_, _)
StrLenFrom(str, i) == IF str[i] = NUL THEN i - 1 ELSE StrLenFrom(str, i + 1)
StrLen(str) == StrLenFrom(str, 1)

\* std::copy(src, src + cnt, m_data + at)
CopyIn(data, at, src, cnt) ==
    [i \in DOMAIN data |->
        IF i >= at /\ i < at + cnt THEN src[i - at + 1] ELSE data[i]]

\* StackString(): m_size(0), m_data[0] = '\0'; the rest of m_data is not
\* initialised (junk).
DefaultCtor(junk) ==
    [m_data |-> [junk EXCEPT ![0] = NUL], m_size |-> 0, hi |-> 0]

\* append(const char* str) keeping one of the N bytes for the terminator.
AppendCStrReserving(s, str) ==
    IF str = NullPtr
    THEN [m_data |-> s.m_data, m_size |-> s.m_size, hi |-> -1]
    ELSE LET len == StrLen(str)
             space_available == IF N - s.m_size > 0 THEN N - 1 - s.m_size ELSE 0
             to_copy == IF len > space_available THEN space_available ELSE len
             size2 == s.m_size + to_copy
         IN  [m_data |-> [CopyIn(s.m_data, s.m_size, str, to_copy)
                              EXCEPT ![size2] = NUL],
              m_size |-> size2, hi |-> size2]

\* append(const char* str)
AppendCStr(s, str) ==
    IF str = NullPtr
    THEN [m_data |-> s.m_data, m_size |-> s.m_size, hi |-> -1]
    ELSE LET len == StrLen(str)
             space_available == N - s.m_size
             to_copy == IF len > space_available THEN space_available ELSE len
             size2 == s.m_size + to_copy
         IN  [m_data |-> [CopyIn(s.m_data, s.m_size, str, to_copy)
                              EXCEPT ![size2] = NUL],
              m_size |-> size2, hi |-> size2]

\* append(std::string_view sv) with m_size = to_copy for m_size += to_copy.
AppendSvAssigning(s, sv) ==
    LET space_available == N - s.m_size
        to_copy == IF Len(sv) > space_available THEN space_available ELSE Len(sv)
    IN  [m_data |-> [CopyIn(s.m_data, s.m_size, sv, to_copy)
                         EXCEPT ![to_copy] = NUL],
         m_size |-> to_copy, hi |-> s.m_size + to_copy]

\* append(std::string_view sv)
AppendSv(s, sv) ==
    LET space_available == N - s.m_size
        to_copy == IF Len(sv) > space_available THEN space_available ELSE Len(sv)
        size2 == s.m_size + to_copy
    IN  [m_data |-> [CopyIn(s.m_data, s.m_size, sv, to_copy)
                         EXCEPT ![size2] = NUL],
         m_size |-> size2, hi |-> size2]

\* append(char c) with m_size > N for m_size >= N.
AppendCharOffByOne(s, c) ==
    IF s.m_size > N
    THEN [m_data |-> s.m_data, m_size |-> s.m_size, hi |-> -1]
    ELSE [m_data |-> [i \in DOMAIN s.m_data |->
                        IF i = s.m_size + 1 THEN NUL
                        ELSE IF i = s.m_size THEN c ELSE s.m_data[i]],
          m_size |-> s.m_size + 1, hi |-> s.m_size + 1]

\* append(char c)
AppendChar(s, c) ==
    IF s.m_size >= N
    THEN [m_data |-> s.m_data, m_size |-> s.m_size, hi |-> -1]
    ELSE [m_data |-> [s.m_data EXCEPT ![s.m_size] = c, ![s.m_size + 1] = NUL],
          m_size |-> s.m_size + 1, hi |-> s.m_size + 1]

\* clear()
Clear(s) ==
    [m_data |-> [s.m_data EXCEPT ![0] = NUL], m_size |-> 0, hi |-> 0]

\* resize(count, ch)
Resize(s, count0, ch) ==
    LET count == IF count0 > N THEN N ELSE count0
    IN  [m_data |-> [i \in DOMAIN s.m_data |->
                        IF i = count THEN NUL
                        ELSE IF count > s.m_size /\ i >= s.m_size /\ i < count
                             THEN ch ELSE s.m_data[i]],
         m_size |-> count, hi |-> count]

\* The decimal digits of u >= 0, most significant first.
RECURSIVE Digits(_)
Digits(u) ==
    IF u < 10 THEN <<Zero + u>> ELSE Append(Digits(u \div 10), Zero + (u % 10))

\* The text std::to_chars produces for value in base 10.
ToChars(value) ==
    IF value < 0 THEN <<Minus>> \o Digits(0 - value) ELSE Digits(value)

\* append(T value), T integral.  std::to_chars(first, last, value) with
\* first = m_data + m_size, last = m_data + N: when the text fits it is
\* written at first and ptr is one past it; otherwise ec is
\* value_too_large and the contents of [first, last) are unspecified
\* (scratch is what the call left there).
AppendInt(s, value, scratch) ==
    LET text == ToChars(value)
        fits == Len(text) <= N - s.m_size
        size2 == s.m_size + Len(text)
    IN  IF fits
        THEN [m_data |-> [CopyIn(s.m_data, s.m_size, text, Len(text))
                              EXCEPT ![size2] = NUL],
              m_size |-> size2, hi |-> size2]
        ELSE [m_data |-> [i \in DOMAIN s.m_data |->
                             IF i >= s.m_size /\ i < N THEN scratch[i]
                             ELSE s.m_data[i]],
              m_size |-> s.m_size, hi |-> N - 1]

\* StackString(const char* str): m_size(0), then append(str) on the
\* uninitialised m_data (junk).
CStrCtor(junk, str) == AppendCStr([m_data |-> junk, m_size |-> 0], str)

\* StackString(std::string_view sv): m_size(0), then append(sv).
SvCtor(junk, sv) == AppendSv([m_data |-> junk, m_size |-> 0], sv)

\* StackString(const StackString& other), and the copying half of the move
\* constructor: m_size(other.m_size), std::copy of m_size + 1 bytes into
\* the uninitialised m_data (junk).
CopyCtor(junk, other) ==
    [m_data |-> [i \in DOMAIN junk |->
                    IF i <= other.m_size THEN other.m_data[i] ELSE junk[i]],
     m_size |-> other.m_size, hi |-> other.m_size]

\* The copy of operator= with std::copy of m_size bytes for m_size + 1: the
\* terminator is not copied.
CopyAssignWithoutTerminator(s, other) ==
    [m_data |-> [i \in DOMAIN s.m_data |->
                    IF i < other.m_size THEN other.m_data[i] ELSE s.m_data[i]],
     m_size |-> other.m_size, hi |-> other.m_size - 1]

\* operator=(const StackString& other) for this != &other, and the copying
\* half of the move assignment.
CopyAssign(s, other) ==
    [m_data |-> [i \in DOMAIN s.m_data |->
                    IF i <= other.m_size THEN other.m_data[i] ELSE s.m_data[i]],
     m_size |-> other.m_size, hi |-> other.m_size]

Obj(r) == [m_data |-> r.m_data, m_size |-> r.m_size]


\* std::string_view(m_data, m_size + 1): the view with the terminator.
ViewWithTerminator(s) == [i \in 1..(s.m_size + 1) |-> s.m_data[i - 1]]

\* operator std::string_view(): std::string_view(m_data, m_size)
View(s) == [i \in 1..s.m_size |-> s.m_data[i - 1]]

\* What a reader of the const char* (c_str(), operator const char*) sees:
\* the bytes from m_data up to the first '\0'.  When m_data holds no '\0'
\* the reader runs past the array: it sees all N + 1 bytes and then whatever
\* follows the object (tail).
RECURSIVE CStrFrom(_, _, _)
CStrFrom(data, i, tail) ==
    IF i > N THEN tail
    ELSE IF data[i] = NUL THEN <<>>
    ELSE <<data[i]>> \o CStrFrom(data, i + 1, tail)
CStr(s, tail) == CStrFrom(s.m_data, 0, tail)

\* What may follow the object in memory, as far as a reader gets.
Tails == {<<>>, <<One>>}

\* -------------------------------------------------------------- actions
\* The contents of an m_data that was not initialised.
Junk == {[i \in 0..N |-> b] : b \in UninitBytes}

ConstructDefault(o) ==
    \E junk \in Junk :
        LET r == DefaultCtor(junk)
        IN  /\ strs' = [strs EXCEPT ![o] = Obj(r)]
            /\ last' = [op |-> "ctor", obj |-> o, arg |-> <<>>, hi |-> r.hi]
            /\ UNCHANGED <<N, allocs, granted>>

ConstructCStr(o, str) ==
    \E junk \in Junk :
        LET r == CStrCtor(junk, str)
        IN  /\ strs' = [strs EXCEPT ![o] = Obj(r)]
            /\ last' = [op |-> "ctor_cstr", obj |-> o, arg |-> str, hi |-> r.hi]
            /\ UNCHANGED <<N, allocs, granted>>

ConstructSv(o, sv) ==
    \E junk \in Junk :
        LET r == SvCtor(junk, sv)
        IN  /\ strs' = [strs EXCEPT ![o] = Obj(r)]
            /\ last' = [op |-> "ctor_sv", obj |-> o, arg |-> sv, hi |-> r.hi]
            /\ UNCHANGED <<N, allocs, granted>>

DoAppendCStr(o, str) ==
    LET r == AppendCStr(strs[o], str)
    IN  /\ strs' = [strs EXCEPT ![o] = Obj(r)]
        /\ last' = [op |-> "append_cstr", obj |-> o, arg |-> str, hi |-> r.hi]
        /\ UNCHANGED <<N, allocs, granted>>

DoAppendSv(o, sv) ==
    LET r == AppendSv(strs[o], sv)
    IN  /\ strs' = [strs EXCEPT ![o] = Obj(r)]
        /\ last' = [op |-> "append_sv", obj |-> o, arg |-> sv, hi |-> r.hi]
        /\ UNCHANGED <<N, allocs, granted>>

DoAppendChar(o, c) ==
    LET r == AppendChar(strs[o], c)
    IN  /\ strs' = [strs EXCEPT ![o] = Obj(r)]
        /\ last' = [op |-> "append_char", obj |-> o, arg |-> c, hi |-> r.hi]
        /\ UNCHANGED <<N, allocs, granted>>

\* What a std::to_chars call that fails may leave in m_data: anything in
\* [m_size, N), the rest as it was.
Scratches(s) ==
    {d \in [0..N -> AnyByte] :
        \A i \in 0..N : (i < s.m_size \/ i >= N) => d[i] = s.m_data[i]}

DoAppendInt(o, value) ==
    \E scratch \in Scratches(strs[o]) :
        LET r == AppendInt(strs[o], value, scratch)
        IN  /\ strs' = [strs EXCEPT ![o] = Obj(r)]
            /\ last' = [op |-> "append_int", obj |-> o, arg |-> value, hi |-> r.hi]
            /\ UNCHANGED <<N, allocs, granted>>

DoClear(o) ==
    LET r == Clear(strs[o])
    IN  /\ strs' = [strs EXCEPT ![o] = Obj(r)]
        /\ last' = [op |-> "clear", obj |-> o, arg |-> <<>>, hi |-> r.hi]
        /\ UNCHANGED <<N, allocs, granted>>

DoResize(o, count, ch) ==
    LET r == Resize(strs[o], count, ch)
    IN  /\ strs' = [strs EXCEPT ![o] = Obj(r)]
        /\ last' = [op |-> "resize", obj |-> o, arg |-> <<count, ch>>, hi |-> r.hi]
        /\ UNCHANGED <<N, allocs, granted>>

\* StackString o(other): o is a new object in the place of the old one.
CopyConstruct(o, other) ==
    /\ o # other
    /\ \E junk \in Junk :
        LET r == CopyCtor(junk, strs[other])
        IN  /\ strs' = [strs EXCEPT ![o] = Obj(r)]
            /\ last' = [op |-> "copy_ctor", obj |-> o, arg |-> other, hi |-> r.hi]
            /\ UNCHANGED <<N, allocs, granted>>

\* o = other; o and other may be the same object.
DoCopyAssign(o, other) ==
    LET r == IF o # other THEN CopyAssign(strs[o], strs[other])
             ELSE [m_data |-> strs[o].m_data, m_size |-> strs[o].m_size, hi |-> -1]
    IN  /\ strs' = [strs EXCEPT ![o] = Obj(r)]
        /\ last' = [op |-> "copy_assign", obj |-> o, arg |-> other, hi |-> r.hi]
        /\ UNCHANGED <<N, allocs, granted>>

\* StackString o(std::move(other)): the copy, then other.clear().
MoveConstruct(o, other) ==
    /\ o # other
    /\ \E junk \in Junk :
        LET r == CopyCtor(junk, strs[other])
        IN  /\ strs' = [strs EXCEPT ![o] = Obj(r),
                                    ![other] = Obj(Clear(strs[other]))]
            /\ last' = [op |-> "move_ctor", obj |-> o, arg |-> other, hi |-> r.hi]
            /\ UNCHANGED <<N, allocs, granted>>

\* o = std::move(other); o and other may be the same object.
DoMoveAssign(o, other) ==
    /\ IF o # other
       THEN LET r == CopyAssign(strs[o], strs[other])
            IN  /\ strs' = [strs EXCEPT ![o] = Obj(r),
                                        ![other] = Obj(Clear(strs[other]))]
                /\ last' = [op |-> "move_assign", obj |-> o, arg |-> other,
                            hi |-> r.hi]
       ELSE /\ strs' = strs
            /\ last' = [op |-> "move_assign", obj |-> o, arg |-> other, hi |-> -1]
    /\ UNCHANGED <<N, allocs, granted>>

\* ------------------------------------------------------- specifications
\* objs default-constructed objects of one capacity out of caps.
StrInit(objs, caps) ==
    /\ N \in caps
    /\ \E j \in [objs -> Junk] : strs = [o \in objs |-> Obj(DefaultCtor(j[o]))]
    /\ last = [op |-> "ctor", obj |-> 1, arg |-> <<>>, hi |-> 0]
    /\ allocs = <<>>
    /\ granted = <<>>

\* Spec: one object and every operation of the class on it.
Init == StrInit({1}, 1..MaxN)

Next ==
    \/ ConstructDefault(1)
    \/ \E str \in CStrArgs : ConstructCStr(1, str)
    \/ \E sv \in SvArgs : ConstructSv(1, sv)
    \/ \E str \in CStrArgs : DoAppendCStr(1, str)
    \/ \E sv \in SvArgs : DoAppendSv(1, sv)
    \/ \E c \in CharArgs : DoAppendChar(1, c)
    \/ \E value \in IntArgs : DoAppendInt(1, value)
    \/ DoClear(1)
    \/ \E count \in ResizeCounts, ch \in FillArgs : DoResize(1, count, ch)
    \/ DoCopyAssign(1, 1)
    \/ DoMoveAssign(1, 1)

Spec == Init /\ [][Next]_vars

\* PairSpec: two objects, starting empty, and the operations that keep a
\* container well formed: construction (default, from a non-null sequence,
\* from a view, by copy, by move), the appends of bytes, clear, resize and
\* the two assignments.
PairInit == StrInit({1, 2}, 1..MaxPairN)

PairNext ==
    \/ \E o \in DOMAIN strs : ConstructDefault(o)
    \/ \E o \in DOMAIN strs, str \in PairCStrArgs : ConstructCStr(o, str)
    \/ \E o \in DOMAIN strs, sv \in PairSvArgs : ConstructSv(o, sv)
    \/ \E o \in DOMAIN strs, str \in PairCStrArgs \cup {NullPtr} :
          DoAppendCStr(o, str)
    \/ \E o \in DOMAIN strs, sv \in PairSvArgs : DoAppendSv(o, sv)
    \/ \E o \in DOMAIN strs, c \in PairCharArgs : DoAppendChar(o, c)
    \/ \E o \in DOMAIN strs : DoClear(o)
    \/ \E o \in DOMAIN strs, count \in PairResizeCounts, ch \in FillArgs :
          DoResize(o, count, ch)
    \/ \E o, other \in DOMAIN strs : CopyConstruct(o, other)
    \/ \E o, other \in DOMAIN strs : DoCopyAssign(o, other)
    \/ \E o, other \in DOMAIN strs : MoveConstruct(o, other)
    \/ \E o, other \in DOMAIN strs : DoMoveAssign(o, other)

PairSpec == PairInit /\ [][PairNext]_vars

\* FreshSpec: a container is default-constructed and one byte sequence is
\* appended to it, over and over.
FreshInit == StrInit({1}, FreshCapacities)

FreshNext ==
    \/ ConstructDefault(1)
    \/ /\ last.op = "ctor"
       /\ \E text \in FreshTexts : DoAppendCStr(1, Lit(text))
    \/ /\ last.op = "ctor"
       /\ \E text \in FreshTexts : DoAppendSv(1, text)

FreshSpec == FreshInit /\ [][FreshNext]_vars

\* ------------------------------------------------------ FixedBufAllocator
\* std::size_t arithmetic is modulo Word.
Word == 2 ^ WordBits

Null == -1             \* the null pointer returned by allocate
NullBuf == 0           \* a null buffer given to the constructor
Regions == {1, 2}      \* the buffers allocators are built over

\* sizeof(buffer) of the region of the allocator spec'ed in the examples.
RegionSize == 16

\* sizeof(T): char and a four-byte type.
ElemSizes == {1, 4}

\* Values of n: small ones, the 10 of the 16-byte scenario, and ones whose
\* n * sizeof(T) or m_used + n * sizeof(T) exceeds Word - 1.
AllocCounts == {0, 1, 10, Word \div 4 + 1, Word - 4}

\* Values of n for which no std::size_t expression of allocate wraps.
ShareCounts == {1, 3}

\* FixedBufAllocator(void* buffer, std::size_t capacity)
AllocCtor(buffer, capacity, elem) ==
    [m_buffer |-> buffer, m_capacity |-> capacity, m_used |-> 0, elem |-> elem]

\* FixedBufAllocator(const FixedBufAllocator<U>& other), T of size elem; the
\* implicit copy constructor is the case U = T.
AllocCopy(other, elem) ==
    [m_buffer |-> other.m_buffer, m_capacity |-> other.m_capacity,
     m_used |-> other.m_used, elem |-> elem]

\* allocate(n): the allocator afterwards and the offset returned.
Allocate(a, n) ==
    LET bytes == (n * a.elem) % Word
    IN  IF a.m_buffer # NullBuf /\ (a.m_used + bytes) % Word <= a.m_capacity
        THEN [a |-> [a EXCEPT !.m_used = (a.m_used + bytes) % Word],
              res |-> a.m_used]
        ELSE [a |-> a, res |-> Null]

\* deallocate(p, n): the allocator afterwards.
Deallocate(a, p, n) == a

\* operator==(a, b) comparing the used offset as well as the buffer.
AllocEqWithUsed(a, b) == a.m_buffer = b.m_buffer /\ a.m_used = b.m_used

\* operator==(a, b)
AllocEq(a, b) == a.m_buffer = b.m_buffer

\* operator!=(a, b)
AllocNe(a, b) == ~AllocEq(a, b)

DoConstruct(buffer, capacity, elem) ==
    /\ Len(allocs) < MaxAllocs
    /\ allocs' = Append(allocs, AllocCtor(buffer, capacity, elem))
    /\ last' = [op |-> "construct", obj |-> Len(allocs) + 1, arg |-> buffer,
                res |-> Null]
    /\ UNCHANGED <<N, strs, granted>>

DoCopy(j, elem) ==
    /\ Len(allocs) < MaxAllocs
    /\ allocs' = Append(allocs, AllocCopy(allocs[j], elem))
    /\ last' = [op |-> "copy", obj |-> Len(allocs) + 1, arg |-> j, res |-> Null]
    /\ UNCHANGED <<N, strs, granted>>

DoAllocate(i, n) ==
    /\ Len(granted) < MaxGrants
    /\ LET r == Allocate(allocs[i], n)
       IN  /\ allocs' = [allocs EXCEPT ![i] = r.a]
           /\ last' = [op |-> "allocate", obj |-> i, arg |-> n, res |-> r.res]
           /\ granted' = IF r.res = Null THEN granted
                         ELSE Append(granted,
                                     [buf |-> allocs[i].m_buffer, lo |-> r.res,
                                      len |-> n * allocs[i].elem,
                                      cap |-> allocs[i].m_capacity])
    /\ UNCHANGED <<N, strs>>

\* A caller gives back to allocator i the k-th range it was given.
DoDeallocate(i, k) ==
    /\ allocs' = [allocs EXCEPT
                    ![i] = Deallocate(allocs[i], granted[k].lo,
                                      granted[k].len \div allocs[i].elem)]
    /\ last' = [op |-> "deallocate", obj |-> i, arg |-> k, res |-> Null]
    /\ UNCHANGED <<N, strs, granted>>

\* One allocator over a region of RegionSize bytes.
AllocInit ==
    /\ N = 0
    /\ strs = <<>>
    /\ \E b \in Regions, e \in ElemSizes :
          allocs = <<AllocCtor(b, RegionSize, e)>>
    /\ granted = <<>>
    /\ last = [op |-> "construct", obj |-> 1, arg |-> 1, res |-> Null]

\* The buffers some allocator is bound to.
Bound == {allocs[i].m_buffer : i \in DOMAIN allocs}

AllocNextWith(counts, buffers) ==
    \/ \E b \in buffers, e \in ElemSizes : DoConstruct(b, RegionSize, e)
    \/ \E j \in DOMAIN allocs, e \in ElemSizes : DoCopy(j, e)
    \/ \E i \in DOMAIN allocs, n \in counts : DoAllocate(i, n)
    \/ \E i \in DOMAIN allocs, k \in DOMAIN granted : DoDeallocate(i, k)

\* AllocSpec: allocators are constructed, copied and rebound, and asked for
\* any number of elements.
AllocNext == AllocNextWith(AllocCounts, Regions \cup {NullBuf})
AllocSpec == AllocInit /\ [][AllocNext]_vars

\* ShareSpec: requests of a few elements only, and every region is given to
\* one constructor call only: the other allocators over it are its copies.
ShareNext == AllocNextWith(ShareCounts, Regions \ Bound)
ShareSpec == AllocInit /\ [][ShareNext]_vars

\* EqSpec: allocators are constructed over the whole of a region or over
\* its first half, copied, rebound and asked for a few elements.
EqCapacities == {RegionSize \div 2, RegionSize}

\* The n of allocate: three elements fit both capacities as chars and only
\* the whole region as four-byte elements.
EqCounts == {3}

EqNext ==
    \/ \E b \in Regions \cup {NullBuf}, c \in EqCapacities, e \in ElemSizes :
          DoConstruct(b, c, e)
    \/ \E j \in DOMAIN allocs, e \in ElemSizes : DoCopy(j, e)
    \/ \E i \in DOMAIN allocs, n \in EqCounts : DoAllocate(i, n)
    \/ \E i \in DOMAIN allocs, k \in DOMAIN granted : DoDeallocate(i, k)

EqSpec == AllocInit /\ [][EqNext]_vars

\* ------------------------------------------------- the allocator claims
\* C5: every range allocate returned lies within [0, capacity) of its
\* region and is disjoint from every range returned earlier over the same
\* region, whichever allocator objects over that region (constructed,
\* copied or rebound) returned them.
C5_RangesDisjoint ==
    /\ \A k \in DOMAIN granted :
          granted[k].lo >= 0 /\ granted[k].lo + granted[k].len <= granted[k].cap
    /\ \A j, k \in DOMAIN granted :
          (j < k /\ granted[j].buf = granted[k].buf)
          => \/ granted[j].lo + granted[j].len <= granted[k].lo
             \/ granted[k].lo + granted[k].len <= granted[j].lo

\* C6: for each allocator over a non-null region, allocate(n) returns
\* region + m_used and adds n * sizeof(T) to m_used exactly when
\* m_used + n * sizeof(T) <= m_capacity, and otherwise returns null and
\* leaves m_used; deallocate leaves m_used; m_used never decreases and
\* stays within 0..m_capacity.
C6_BumpDiscipline ==
    [][ \A i \in DOMAIN allocs :
          allocs[i].m_buffer # NullBuf
          => LET a == allocs[i]
                 b == allocs'[i]
             IN  /\ b.m_used >= a.m_used
                 /\ b.m_used >= 0 /\ b.m_used <= b.m_capacity
                 /\ (last'.op = "allocate" /\ last'.obj = i)
                      => LET need == last'.arg * a.elem
                         IN  IF a.m_used + need <= a.m_capacity
                             THEN last'.res = a.m_used /\ b.m_used = a.m_used + need
                             ELSE last'.res = Null /\ b.m_used = a.m_used
                 /\ last'.op = "deallocate" => b.m_used = a.m_used
      ]_vars

\* C8: allocate(n) returns null and changes nothing whenever the exact value
\* of m_used + n * sizeof(T) exceeds m_capacity, and a range it returns has
\* room for the n elements within the capacity.
C8_NoGrantBeyondCapacity ==
    [][ last'.op = "allocate"
        => LET a == allocs[last'.obj]
               need == last'.arg * a.elem
           IN  /\ a.m_used + need > a.m_capacity
                    => last'.res = Null /\ allocs' = allocs /\ granted' = granted
               /\ last'.res # Null => last'.res + need <= a.m_capacity
      ]_vars

\* C11: two allocators compare equal exactly when they were built over the
\* same region, whatever their capacity, used offset and element type: an
\* allocator constructed over a region equals the allocators over that
\* region and no other, a copy or rebound copy equals its source, and no
\* later operation (an allocate on either one included) changes whether
\* two allocators are equal; != is the negation.
C11_EqualityIsRegionIdentity ==
    [][ /\ \A i, j \in DOMAIN allocs' :
              /\ AllocEq(allocs'[i], allocs'[j])
                   <=> allocs'[i].m_buffer = allocs'[j].m_buffer
              /\ AllocNe(allocs'[i], allocs'[j])
                   <=> allocs'[i].m_buffer # allocs'[j].m_buffer
        /\ \A i, j \in DOMAIN allocs :
              AllocEq(allocs'[i], allocs'[j]) <=> AllocEq(allocs[i], allocs[j])
        /\ last'.op = "copy"
             => AllocEq(allocs'[last'.obj], allocs'[last'.arg])
        /\ last'.op = "construct"
             => \A j \in DOMAIN allocs :
                  AllocEq(allocs'[last'.obj], allocs'[j])
                  <=> allocs[j].m_buffer = last'.arg
      ]_vars

\* Two allocators of different element types were constructed over the
\* same region with different capacities, and an allocate on one of them
\* moved its used offset away from the other's: they compare equal.
C11_Witness ==
    /\ last.op = "allocate"
    /\ last.res # Null
    /\ \E i, j \in DOMAIN allocs :
          /\ i # j
          /\ AllocEq(allocs[i], allocs[j])
          /\ allocs[i].m_used # allocs[j].m_used
          /\ allocs[i].elem # allocs[j].elem
          /\ allocs[i].m_capacity # allocs[j].m_capacity

\* ------------------------------------------------- the container claims
\* The text of a non-null const char* argument: its bytes before the first
\* '\0'.
CText(str) == SubSeq(str, 1, StrLen(str))

HasNul(text) == \E i \in 1..Len(text) : text[i] = NUL

\* C1: in every state reached from empty or non-null-constructed containers
\* by the appends of byte sequences, views and single bytes, clear, resize,
\* copy and move, 0 <= m_size <= N and m_data[m_size] = '\0' for every
\* object, and the last operation wrote no index of m_data above N.
C1_LengthBoundedAndTerminated ==
    /\ \A o \in DOMAIN strs :
        /\ strs[o].m_size \in 0..N
        /\ strs[o].m_data[strs[o].m_size] = NUL
    /\ last.hi <= N

\* A byte was appended to a container that had room for exactly one more.
C1_Witness ==
    /\ last.op = "append_char"
    /\ last.hi = N
    /\ strs[last.obj].m_size = N
    /\ strs[last.obj].m_data[N - 1] = last.arg

C3_TestTruncation ==
    [][ ( /\ last'.op = "append_cstr"
          /\ strs[1].m_size = 0
          /\ StrLen(last'.arg) > N )
        => LET t == strs'[1]
           IN  /\ (N = TestCapacity /\ last'.arg = Lit(TestInput))
                     => /\ t.m_size = 7
                        /\ View(t) = SubSeq(TestInput, 1, 7)
                        /\ t.m_data[7] = NUL
               /\ t.m_size = N - 1
               /\ View(t) = SubSeq(last'.arg, 1, N - 1)
               /\ t.m_data[N - 1] = NUL ]_vars

\* C4: an integer append either appends the whole decimal text of the value
\* (when it has at most N - m_size bytes) or leaves m_size and the bytes
\* [0, m_size) as they were; either way m_data[m_size] = '\0' afterwards.
C4_IntAppendAtomic ==
    [][ last'.op = "append_int"
        => LET text == ToChars(last'.arg)
               s == strs[1]
               t == strs'[1]
           IN  /\ IF Len(text) <= N - s.m_size
                  THEN /\ t.m_size = s.m_size + Len(text)
                       /\ View(t) = View(s) \o text
                  ELSE /\ t.m_size = s.m_size
                       /\ View(t) = View(s)
               /\ t.m_data[t.m_size] = NUL ]_vars

\* C7: a container constructed from a null const char* has m_size = 0 and
\* m_data[0] = '\0'; appending a null const char* to a well-formed
\* container changes nothing.
C7_NullInput ==
    [][ /\ (last'.op = "ctor_cstr" /\ last'.arg = NullPtr)
           => /\ strs'[1].m_size = 0
              /\ strs'[1].m_data[0] = NUL
        /\ ( /\ last'.op = "append_cstr"
             /\ last'.arg = NullPtr
             /\ strs[1].m_data[strs[1].m_size] = NUL )
           => strs'[1] = strs[1] ]_vars

\* The texts a second append may bring, as a view or as a literal.
SecondTexts == SvArgs \cup {CText(str) : str \in CStrArgs \ {NullPtr}}

Rebuilt(s, tail) == CStrCtor(s.m_data, Lit(CStr(s, tail)))

\* C10 as the spec has it: in every state the view is the bytes
\* [0, m_size), and the const char*, read up to its first '\0', and a
\* container rebuilt from it, hold exactly the content of the view.
C10_RoundTrip ==
    \A o \in DOMAIN strs :
        LET s == strs[o]
        IN  /\ Len(View(s)) = s.m_size
            /\ \A tail \in Tails :
                /\ CStr(s, tail) = View(s)
                /\ View(Rebuilt(s, tail)) = View(s)

\* C10, amended: in every state the view is the bytes [0, m_size), and the
\* const char*, and a container rebuilt from it, hold the content of the
\* view exactly when no byte of [0, m_size) is '\0' and m_data[m_size] is
\* '\0'; with a '\0' inside they hold the bytes before the first one.
C10_RoundTripWithoutNul ==
    \A o \in DOMAIN strs :
        LET s == strs[o]
            clean == ~HasNul(View(s)) /\ s.m_data[s.m_size] = NUL
        IN  /\ Len(View(s)) = s.m_size
            /\ \A i \in 1..s.m_size : View(s)[i] = s.m_data[i - 1]
            /\ \A tail \in Tails :
                /\ (CStr(s, tail) = View(s)) <=> clean
                /\ (View(Rebuilt(s, tail)) = View(s)) <=> clean
                /\ HasNul(View(s))
                     => /\ Len(CStr(s, tail)) < s.m_size
                        /\ CStr(s, tail) = SubSeq(View(s), 1, Len(CStr(s, tail)))
                        /\ View(s)[Len(CStr(s, tail)) + 1] = NUL

\* A resize with the default fill byte left a '\0' inside the content
\* after a '1': the view has more bytes than the const char* shows.
C10_Witness ==
    /\ last.op = "resize"
    /\ last.arg[2] = NUL
    /\ strs[last.obj].m_size >= 2
    /\ strs[last.obj].m_data[0] = One
    /\ CStr(strs[last.obj], <<>>) = <<One>>

\* C12: after a copy construction or a copy assignment from another object
\* the destination has the source's m_size and its bytes [0, m_size], and
\* the source is as it was; after a move construction or a move assignment
\* from another object the destination has the m_size and the bytes
\* [0, m_size] the source had, and the source has m_size = 0 and
\* m_data[0] = '\0'; a copy or move assignment of an object to itself
\* changes nothing.
C12_CopyAndMoveByValue ==
    [][ /\ ( /\ last'.op \in {"copy_ctor", "copy_assign"}
             /\ last'.obj # last'.arg )
           => LET src == strs[last'.arg]
                  dst == strs'[last'.obj]
              IN  /\ dst.m_size = src.m_size
                  /\ \A i \in 0..src.m_size : dst.m_data[i] = src.m_data[i]
                  /\ View(dst) = View(src)
                  /\ strs'[last'.arg] = src
        /\ ( /\ last'.op \in {"move_ctor", "move_assign"}
             /\ last'.obj # last'.arg )
           => LET src == strs[last'.arg]
                  dst == strs'[last'.obj]
              IN  /\ dst.m_size = src.m_size
                  /\ \A i \in 0..src.m_size : dst.m_data[i] = src.m_data[i]
                  /\ View(dst) = View(src)
                  /\ strs'[last'.arg].m_size = 0
                  /\ strs'[last'.arg].m_data[0] = NUL
        /\ ( /\ last'.op \in {"copy_assign", "move_assign"}
             /\ last'.obj = last'.arg )
           => strs' = strs
      ]_vars

\* A full container was move-assigned to another object: the destination
\* holds its N bytes and the source is empty.
C12_Witness ==
    /\ last.op = "move_assign"
    /\ last.obj # last.arg
    /\ strs[last.obj].m_size = N
    /\ strs[last.obj].m_data[N - 1] = One
    /\ strs[last.obj].m_data[N] = NUL
    /\ strs[last.arg].m_size = 0
    /\ strs[last.arg].m_data[0] = NUL

====
